---------------------------- MODULE Spec2Model ----------------------------
(***************************************************************************)
(* A model of the Quora scraper (extractors/quora_parser.py) and of its    *)
(* exporter (outputs/exporters.py).                                        *)
(*                                                                         *)
(* Python strings are sequences of one-character strings, so that strip,   *)
(* split, lower, replace, the substring tests and the number grammar are   *)
(* computed character by character, as the code computes them.             *)
(***************************************************************************)
EXTENDS Integers, Sequences, FiniteSets, TLC

VARIABLES
    pc,               \* the function about to run, then "done" or "raised"
    clock,            \* what to_iso(now_utc()), timestamp_for_filename(now_utc()) give
    token,            \* _parse_compact_number: its argument
    numResult,        \* _parse_compact_number: what the call did
    soup,             \* the parsed page _extract_title and _parse_question_page read
    titleResult,      \* _extract_title: the string returned
    blocks,           \* _extract_answer_blocks: what the call did
    parseResult,      \* _parse_question_page: what the call did
    html_links,       \* _parse_search_results_page: the page's href values
    collected,        \* _parse_search_results_page: the list returned
    url,              \* scrape_url: its url argument
    limit_per_search, \* scrape_url: its limit argument
    route,            \* scrape_url: the path taken, "search" or "question"
    q_url,            \* _scrape_question: its url argument
    question_urls,    \* _scrape_search: the links selected, after the limit
    q_index,          \* _scrape_search: the position of the for loop
    records,          \* _scrape_search: the records gathered so far
    result,           \* scrape_url: the list returned
    fetchLog,         \* every self.session.get made so far, with its response
    dirs,             \* the directories that exist
    files,            \* the paths of the files that exist
    exports,          \* the number of export_data calls made
    exportCall,       \* export_data: the last call's arguments and what it found
    exportResult      \* export_data: what the last call did

numVars == <<token, numResult>>
pageVars == <<soup, titleResult, blocks, parseResult>>
linkVars == <<html_links, collected>>
scrapeVars == <<url, limit_per_search, route, q_url, question_urls, q_index,
                records, result, fetchLog>>
exportVars == <<dirs, files, exports, exportCall, exportResult>>
vars == <<pc, clock, numVars, pageVars, linkVars, scrapeVars, exportVars>>

\* None, where a string may stand: no string of characters equals it.
None == <<"None">>
Pending == "pending"

-----------------------------------------------------------------------------
(* Strings                                                                 *)

Min(a, b) == IF a <= b THEN a ELSE b

Max(a, b) == IF a >= b THEN a ELSE b

\* The whitespace str.strip() and str.split() remove.
IsSpace(c) == c \in {" ", "\t", "\n"}

\* str.strip(): the text from the first to the last non-space character.
Strip(s) ==
    IF \A i \in 1..Len(s) : IsSpace(s[i]) THEN <<>>
    ELSE LET lo == CHOOSE i \in 1..Len(s) :
                     ~IsSpace(s[i]) /\ \A j \in 1..(i - 1) : IsSpace(s[j])
             hi == CHOOSE i \in 1..Len(s) :
                     ~IsSpace(s[i]) /\ \A j \in (i + 1)..Len(s) : IsSpace(s[j])
         IN  SubSeq(s, lo, hi)

\* str.replace(c, ""): every occurrence of the character c removed.
RECURSIVE RemoveChar(_, _)
RemoveChar(s, c) ==
    IF s = <<>> THEN <<>>
    ELSE IF Head(s) = c THEN RemoveChar(Tail(s), c)
    ELSE <<Head(s)>> \o RemoveChar(Tail(s), c)

UpperLetters ==
    <<"A", "B", "C", "D", "E", "F", "G", "H", "I", "J", "K", "L", "M",
      "N", "O", "P", "Q", "R", "S", "T", "U", "V", "W", "X", "Y", "Z">>

LowerLetters ==
    <<"a", "b", "c", "d", "e", "f", "g", "h", "i", "j", "k", "l", "m",
      "n", "o", "p", "q", "r", "s", "t", "u", "v", "w", "x", "y", "z">>

LowerChar(c) ==
    IF \E i \in 1..26 : UpperLetters[i] = c
    THEN LowerLetters[CHOOSE i \in 1..26 : UpperLetters[i] = c]
    ELSE c

\* str.lower()
Lower(s) == [i \in 1..Len(s) |-> LowerChar(s[i])]

\* p in s
Contains(s, p) ==
    \E i \in 1..(Len(s) - Len(p) + 1) : SubSeq(s, i, i + Len(p) - 1) = p

\* s.startswith(p)
StartsWith(s, p) == Len(s) >= Len(p) /\ SubSeq(s, 1, Len(p)) = p

\* sep.join(parts)
RECURSIVE Join(_, _)
Join(parts, sep) ==
    IF parts = <<>> THEN <<>>
    ELSE IF Len(parts) = 1 THEN parts[1]
    ELSE parts[1] \o sep \o Join(Tail(parts), sep)

\* str.split(): the maximal runs of non-space characters, in order.
RECURSIVE Split(_)
Split(s) ==
    IF s = <<>> THEN <<>>
    ELSE IF IsSpace(Head(s)) THEN Split(Tail(s))
    ELSE LET stops == {i \in 1..Len(s) : IsSpace(s[i])}
             end == IF stops = {} THEN Len(s) + 1
                    ELSE CHOOSE i \in stops : \A j \in stops : i <= j
         IN  <<SubSeq(s, 1, end - 1)>> \o Split(SubSeq(s, end, Len(s)))

\* All sequences over S of length at most n.
SeqsUpTo(S, n) == UNION {[1..k -> S] : k \in 0..n}

-----------------------------------------------------------------------------
(* Compact numbers: _parse_compact_number                                   *)

IsDigit(c) == c \in {"0", "1", "2", "3", "4", "5", "6", "7", "8", "9"}

DigitVal(c) ==
    CASE c = "0" -> 0 [] c = "1" -> 1 [] c = "2" -> 2 [] c = "3" -> 3
      [] c = "4" -> 4 [] c = "5" -> 5 [] c = "6" -> 6 [] c = "7" -> 7
      [] c = "8" -> 8 [] c = "9" -> 9

\* The number a sequence of digit values writes in base ten.
RECURSIVE Num(_)
Num(ds) ==
    IF ds = <<>> THEN 0
    ELSE Num(SubSeq(ds, 1, Len(ds) - 1)) * 10 + ds[Len(ds)]

RECURSIVE DropLeadingZeros(_)
DropLeadingZeros(ds) ==
    IF ds # <<>> /\ Head(ds) = 0 THEN DropLeadingZeros(Tail(ds)) ELSE ds

s_inf == <<"i", "n", "f">>
s_infinity == <<"i", "n", "f", "i", "n", "i", "t", "y">>
s_nan == <<"n", "a", "n">>

AllDigits(s) == \A i \in 1..Len(s) : IsDigit(s[i])

Digits(s) == [i \in 1..Len(s) |-> DigitVal(s[i])]

\* The text of s after an optional sign, and whether the sign was "-".
Unsigned(s) == IF s # <<>> /\ Head(s) \in {"+", "-"} THEN Tail(s) ELSE s

IsNegative(s) == s # <<>> /\ Head(s) = "-"

(***************************************************************************)
(* float(s), as Python's float() reads a string: surrounding whitespace    *)
(* dropped, an optional sign, then "inf", "infinity" or "nan" in any case, *)
(* or a decimal number: digits with at most one point and at least one     *)
(* digit, then optionally "e", an optional sign and at least one digit.    *)
(* A decimal is kept exact: its digits, how many of them follow the point, *)
(* and its exponent.  Anything else is the ValueError float() raises.      *)
(* (Python also takes "_" between digits; no token here holds one.)        *)
(***************************************************************************)

\* The least index of s holding a character of cs, or Len(s) + 1.
FirstOf(s, cs) ==
    IF \A i \in 1..Len(s) : s[i] \notin cs THEN Len(s) + 1
    ELSE CHOOSE i \in 1..Len(s) :
           s[i] \in cs /\ \A j \in 1..(i - 1) : s[j] \notin cs

\* The value of a signed run of digits.
SignedNum(s) ==
    IF IsNegative(s) THEN 0 - Num(Digits(Unsigned(s)))
    ELSE Num(Digits(Unsigned(s)))

\* The digits before and after the point, and the exponent text after "e".
DecimalOfParts(neg, ipart, fpart, hasExp, expo) ==
    IF /\ AllDigits(ipart) /\ AllDigits(fpart)
       /\ Len(ipart) + Len(fpart) >= 1
       /\ hasExp => (Unsigned(expo) # <<>> /\ AllDigits(Unsigned(expo)))
    THEN [kind |-> "dec", neg |-> neg,
          digits |-> Digits(ipart) \o Digits(fpart),
          frac |-> Len(fpart),
          exp |-> IF hasExp THEN SignedNum(expo) ELSE 0]
    ELSE [kind |-> "ValueError"]

\* The mantissa, cut at its first point (a second point is no digit).
DecimalOfMantissa(neg, mant, dot, hasExp, expo) ==
    DecimalOfParts(neg, SubSeq(mant, 1, dot - 1),
                   SubSeq(mant, dot + 1, Len(mant)), hasExp, expo)

\* The number text, cut at its first "e".
DecimalOfText(neg, body, e) ==
    DecimalOfMantissa(neg, SubSeq(body, 1, e - 1),
                      FirstOf(SubSeq(body, 1, e - 1), {"."}),
                      e <= Len(body), SubSeq(body, e + 1, Len(body)))

FloatOfBody(neg, body) ==
    IF body = s_inf \/ body = s_infinity THEN [kind |-> "inf", neg |-> neg]
    ELSE IF body = s_nan THEN [kind |-> "nan"]
    ELSE DecimalOfText(neg, body, FirstOf(body, {"e"}))

FloatOfStripped(t) == FloatOfBody(IsNegative(t), Lower(Unsigned(t)))

ParseFloat(s) == FloatOfStripped(Strip(s))

(***************************************************************************)
(* int(value * multiplier) for value = float(token), multiplier = 10^m10.  *)
(* A NaN makes int() raise ValueError, an infinity OverflowError; a        *)
(* decimal beyond the largest double (about 1.8e308) is read as infinity.  *)
(* A finite product is truncated toward zero; one of more than nine digits *)
(* is reported as "bigint" without its value.                              *)
(***************************************************************************)

\* The first pos digits of the number D writes, D being followed by zeros.
Shown(D, pos) ==
    IF pos <= Len(D) THEN SubSeq(D, 1, pos)
    ELSE D \o [i \in 1..(pos - Len(D)) |-> 0]

\* D: the digits without leading zeros; pos: how many digits the product
\* has before its point.
IntOfDigits(neg, D, pos) ==
    IF D = <<>> \/ pos <= 0 THEN [kind |-> "int", v |-> 0]
    ELSE IF pos > 309
            \/ (pos = 309 /\ D[1] * 10 + (IF Len(D) >= 2 THEN D[2] ELSE 0) >= 18)
         THEN [kind |-> "OverflowError"]
    ELSE IF pos > 9 THEN [kind |-> "bigint", neg |-> neg]
    ELSE [kind |-> "int",
          v |-> IF neg THEN 0 - Num(Shown(D, pos)) ELSE Num(Shown(D, pos))]

IntOfDecimal(f, D, m10) == IntOfDigits(f.neg, D, Len(D) + f.exp - f.frac + m10)

IntOfProduct(f, m10) ==
    IF f.kind = "ValueError" \/ f.kind = "nan" THEN [kind |-> "ValueError"]
    ELSE IF f.kind = "inf" THEN [kind |-> "OverflowError"]
    ELSE IntOfDecimal(f, DropLeadingZeros(f.digits), m10)

(***************************************************************************)
(* _parse_compact_number(token).  The result is [kind |-> "none"] for      *)
(* None, an "int" or "bigint" for the integer returned, and                *)
(* [kind |-> "raise"] for an exception that leaves the function: the       *)
(* except clause catches ValueError only.                                  *)
(***************************************************************************)

\* The try block's outcome r: what is returned, what is caught, what escapes.
TryResult(r) ==
    IF r.kind = "ValueError" THEN [kind |-> "none"]
    ELSE IF r.kind = "OverflowError"
         THEN [kind |-> "raise", exc |-> "OverflowError"]
    ELSE r

\* t: the token stripped and without commas; last: its last character, lowered.
CompactOfCleaned(t, last) ==
    IF last = "k" THEN TryResult(IntOfProduct(ParseFloat(SubSeq(t, 1, Len(t) - 1)), 3))
    ELSE IF last = "m"
         THEN TryResult(IntOfProduct(ParseFloat(SubSeq(t, 1, Len(t) - 1)), 6))
    ELSE TryResult(IntOfProduct(ParseFloat(t), 0))

CompactOfToken(t) ==
    IF t = <<>> THEN [kind |-> "none"]
    ELSE CompactOfCleaned(t, LowerChar(t[Len(t)]))

ParseCompactNumber(tok) == CompactOfToken(RemoveChar(Strip(tok), ","))

-----------------------------------------------------------------------------
(* URLs: urllib.parse as _is_search_url and _normalize_url use it           *)

s_search == <<"s", "e", "a", "r", "c", "h">>
s_q_eq == <<"q", "=">>
s_https == <<"h", "t", "t", "p", "s">>
DEFAULT_BASE_URL == <<"h", "t", "t", "p", "s", ":", "/", "/", "w", "w", "w", ".", "q", "u", "o", "r", "a", ".", "c", "o", "m">>

IsAlpha(c) ==
    \E i \in 1..26 : UpperLetters[i] = c \/ LowerLetters[i] = c

\* urllib's scheme_chars
IsSchemeChar(c) == IsAlpha(c) \/ IsDigit(c) \/ c \in {"+", "-", "."}

(***************************************************************************)
(* urlparse(u): the scheme is the text before the first ":" when it        *)
(* starts with a letter and holds scheme characters only; the netloc       *)
(* follows "//" up to the next "/", "?" or "#"; then the fragment is cut   *)
(* at the first "#" and the query at the first "?".                        *)
(***************************************************************************)
\* The last cut: the query after the first "?" of what is left.
CutQuery(scheme, netloc, r3, fragment, qm) ==
    [scheme |-> scheme, netloc |-> netloc, path |-> SubSeq(r3, 1, qm - 1),
     query |-> SubSeq(r3, qm + 1, Len(r3)), fragment |-> fragment]

BeforeFragment(scheme, netloc, r3, fragment) ==
    CutQuery(scheme, netloc, r3, fragment, FirstOf(r3, {"?"}))

CutFragment(scheme, netloc, r2, hash) ==
    BeforeFragment(scheme, netloc, SubSeq(r2, 1, hash - 1),
                   SubSeq(r2, hash + 1, Len(r2)))

AfterNetloc(scheme, netloc, r2) ==
    CutFragment(scheme, netloc, r2, FirstOf(r2, {"#"}))

CutNetloc(scheme, afterSl, netEnd) ==
    AfterNetloc(scheme, SubSeq(afterSl, 1, netEnd - 1),
                SubSeq(afterSl, netEnd, Len(afterSl)))

AfterSlashes(scheme, afterSl) ==
    CutNetloc(scheme, afterSl, FirstOf(afterSl, {"/", "?", "#"}))

AfterScheme(scheme, r1) ==
    IF StartsWith(r1, <<"/", "/">>)
    THEN AfterSlashes(scheme, SubSeq(r1, 3, Len(r1)))
    ELSE AfterNetloc(scheme, <<>>, r1)

HasScheme(u, colon) ==
    /\ colon <= Len(u) /\ colon > 1
    /\ IsAlpha(u[1])
    /\ \A i \in 1..(colon - 1) : IsSchemeChar(u[i])

CutScheme(u, colon) ==
    IF HasScheme(u, colon)
    THEN AfterScheme(Lower(SubSeq(u, 1, colon - 1)), SubSeq(u, colon + 1, Len(u)))
    ELSE AfterScheme(<<>>, u)

UrlParse(u) == CutScheme(u, FirstOf(u, {":"}))

\* urlunparse for an https URL: "//" and the netloc, the path made absolute,
\* then a non-empty query and a non-empty fragment.
UrlUnparse(netloc, path, query, fragment) ==
    s_https \o <<":", "/", "/">> \o netloc
      \o (IF path # <<>> /\ Head(path) # "/" THEN <<"/">> \o path ELSE path)
      \o (IF query # <<>> THEN <<"?">> \o query ELSE <<>>)
      \o (IF fragment # <<>> THEN <<"#">> \o fragment ELSE <<>>)

(***************************************************************************)
(* urljoin(DEFAULT_BASE_URL, u) for a u without a scheme: the empty u is   *)
(* the base; a u with its own netloc ("//host/...") keeps it; a u without  *)
(* a path keeps the base's (empty) path; any other path is                 *)
(* resolved against the base's root.  (No path here holds a "." or ".."    *)
(* segment, an empty segment or a ";".)                                    *)
(***************************************************************************)
JoinParsed(u, p, b) ==
    IF u = <<>> THEN DEFAULT_BASE_URL
    ELSE IF p.netloc # <<>>
         THEN UrlUnparse(p.netloc, p.path, p.query, p.fragment)
    ELSE UrlUnparse(b.netloc, p.path, p.query, p.fragment)

UrlJoin(u) == JoinParsed(u, UrlParse(u), UrlParse(DEFAULT_BASE_URL))

\* The test of _is_search_url on the parsed URL.
SearchInParsed(parsed) ==
    Contains(parsed.path, s_search) \/ Contains(parsed.query, s_q_eq)

\* _is_search_url
IsSearchUrl(u) == SearchInParsed(UrlParse(u))

\* _normalize_url
NormalizeUrl(u) ==
    IF UrlParse(u).scheme = <<>> THEN UrlJoin(u) ELSE u

-----------------------------------------------------------------------------
(* The search page link collector: _parse_search_results_page               *)

s_http == <<"h", "t", "t", "p">>
s_quora_com == <<"q", "u", "o", "r", "a", ".", "c", "o", "m">>
s_profile == <<"/", "p", "r", "o", "f", "i", "l", "e", "/">>
s_answer_slash == <<"a", "n", "s", "w", "e", "r", "/">>
s_What == <<"/", "W", "h", "a", "t", "-">>
s_How == <<"/", "H", "o", "w", "-">>
s_Why == <<"/", "W", "h", "y", "-">>
s_Is == <<"/", "I", "s", "-">>
s_Can == <<"/", "C", "a", "n", "-">>
s_question == <<"/", "q", "u", "e", "s", "t", "i", "o", "n", "/">>

\* The first three tests of the loop body: the links the loop skips.
HrefSkipped(href) ==
    \/ StartsWith(href, s_http) /\ ~Contains(href, s_quora_com)
    \/ Contains(href, s_profile)
    \/ Contains(href, s_answer_slash)

\* The if / elif of the loop body: the links that look like a question.
HrefLooksLikeQuestion(href) ==
    \/ Contains(href, s_What) \/ Contains(href, s_How) \/ Contains(href, s_Why)
    \/ Contains(href, s_Is) \/ Contains(href, s_Can)
    \/ Contains(href, s_question)

InSeq(x, s) == \E i \in 1..Len(s) : s[i] = x

\* The loop over the page's <a href> elements, acc being the
\* list built so far.
RECURSIVE CollectLinks(_, _)
CollectLinks(hrefs, acc) ==
    IF hrefs = <<>> THEN acc
    ELSE LET href == Head(hrefs)
             full_url == NormalizeUrl(href)
         IN  IF HrefSkipped(href) \/ ~HrefLooksLikeQuestion(href)
                  \/ InSeq(full_url, acc)
             THEN CollectLinks(Tail(hrefs), acc)
             ELSE CollectLinks(Tail(hrefs), Append(acc, full_url))

\* _parse_search_results_page(html), html being given by the href values of
\* its <a href> elements in document order.
ParseSearchResultsPage(hrefs) == CollectLinks(hrefs, <<>>)

-----------------------------------------------------------------------------
(* The parsed page                                                          *)
(*                                                                         *)
(* A page (the BeautifulSoup tree) is given by what the extractors read:   *)
(*   og       the content of <meta property="og:title">, or None           *)
(*   title    soup.title.string, or None                                   *)
(*   h1       the text nodes of the first <h1>, or NoNodes                 *)
(*   metaQid  the content of <meta name="qid">, or None                    *)
(*   dataQid  the data-qid value of the first element with one, or None    *)
(*   elems    the body's elements in document order, each with its tag,    *)
(*            its data-testid (or None), its class list and its children:  *)
(*            text nodes [a |-> FALSE, s] and links [a |-> TRUE, href, s]  *)
(***************************************************************************)

s_answer == <<"a", "n", "s", "w", "e", "r">>
s_upvote == <<"u", "p", "v", "o", "t", "e">>
s_view == <<"v", "i", "e", "w">>
\* In place of the text nodes of an <h1>, when the page has none.
NoNodes == <<None>>

QuoraQuestion == <<"Q", "u", "o", "r", "a", " ", "Q", "u", "e", "s", "t", "i", "o", "n">>

\* The strings get_text(strip=True) keeps: each one stripped, the empty dropped.
RECURSIVE StrippedStrings(_)
StrippedStrings(nodes) ==
    IF nodes = <<>> THEN <<>>
    ELSE LET t == Strip(Head(nodes))
         IN  IF t = <<>> THEN StrippedStrings(Tail(nodes))
             ELSE <<t>> \o StrippedStrings(Tail(nodes))

\* The text nodes under an element, in document order.
Strings(children) == [i \in 1..Len(children) |-> children[i].s]

\* container.get_text(sep, strip=True)
GetText(children, sep) == Join(StrippedStrings(Strings(children)), sep)

\* _extract_title
ExtractTitle(sp) ==
    IF sp.og # None /\ sp.og # <<>> THEN Strip(sp.og)
    ELSE IF sp.title # None /\ sp.title # <<>> THEN Strip(sp.title)
    ELSE IF sp.h1 # NoNodes /\ Join(StrippedStrings(sp.h1), <<>>) # <<>>
         THEN Join(StrippedStrings(sp.h1), <<>>)
    ELSE QuoraQuestion

\* int(s) of a string: whitespace around, an optional sign, digits.
IntOfString(s) ==
    LET t == Strip(s)
    IN  IF Unsigned(t) # <<>> /\ AllDigits(Unsigned(t))
        THEN [kind |-> "int",
              v |-> IF IsNegative(t) THEN 0 - Num(Digits(Unsigned(t)))
                    ELSE Num(Digits(Unsigned(t)))]
        ELSE [kind |-> "ValueError"]

\* _extract_qid: the meta tag, then data-qid, then the first 12 hex digits of
\* the SHA-256 of the URL (kept as a term: the digest is not computed).
ExtractQid(sp, u) ==
    IF sp.metaQid # None /\ sp.metaQid # <<>>
       /\ IntOfString(sp.metaQid).kind = "int"
    THEN IntOfString(sp.metaQid)
    ELSE IF sp.dataQid # None /\ IntOfString(sp.dataQid).kind = "int"
    THEN IntOfString(sp.dataQid)
    ELSE [kind |-> "sha256", v |-> u]

\* _build_encoded_id: the first 32 hex digits of the SHA-256 of
\* "Question@{qid or 0}:{answer_index}" (kept as a term).
BuildEncodedId(qid, answer_index) ==
    [sha256 |-> <<"Question@", qid, ":", answer_index>>]

\* The for loop of _extract_upvotes and _extract_views from token i on: the
\* token before the first token holding pat that parses to a number.
RECURSIVE ScanTokens(_, _, _)
RECURSIVE ParsedOrNext(_, _, _, _)
ScanTokens(tokens, i, pat) ==
    IF i > Len(tokens) THEN [kind |-> "none"]
    ELSE IF Contains(tokens[i], pat) /\ i > 1
    THEN ParsedOrNext(ParseCompactNumber(tokens[i - 1]), tokens, i, pat)
    ELSE ScanTokens(tokens, i + 1, pat)

\* "if parsed is not None: return parsed", else the loop goes on.
ParsedOrNext(parsed, tokens, i, pat) ==
    IF parsed.kind = "none" THEN ScanTokens(tokens, i + 1, pat) ELSE parsed

\* The body both extractors share, on the lowered text of the container.
ScanText(lowered, pat) ==
    IF ~Contains(lowered, pat) THEN [kind |-> "none"]
    ELSE ScanTokens(Split(lowered), 1, pat)

\* _extract_upvotes
ExtractUpvotes(children) == ScanText(Lower(GetText(children, <<" ">>)), s_upvote)

\* _extract_views
ExtractViews(children) == ScanText(Lower(GetText(children, <<" ">>)), s_view)

IsProfileLink(c) == c.a /\ c.href # None /\ Contains(c.href, s_profile)

\* The (profile URL, name) of the link best.
AuthorOfLink(href, name) ==
    [profile_url |-> NormalizeUrl(href),
     author_name |-> IF name = <<>> THEN None ELSE name]

\* The least member of a non-empty set of indices.
Least(hits) == CHOOSE i \in hits : \A j \in hits : i <= j

FirstProfileLink(children, hits) ==
    IF hits = {} THEN [profile_url |-> None, author_name |-> None]
    ELSE AuthorOfLink(children[Least(hits)].href, Strip(children[Least(hits)].s))

\* _extract_author: the first link to a profile, as (profile URL, name).
ExtractAuthor(children) ==
    FirstProfileLink(children,
                     {i \in 1..Len(children) : IsProfileLink(children[i])})

\* The dict of an answer block, from what the three extractors gave.
AnswerDict(text, upvotes, views, author) ==
    [text |-> text,
     upvotes |-> upvotes,
     views |-> views,
     profile_url |-> author.profile_url,
     author_name |-> author.author_name]

\* _build_answer_dict
BuildAnswerDict(children, text) ==
    AnswerDict(text, ExtractUpvotes(children), ExtractViews(children),
               ExtractAuthor(children))

\* Whether _build_answer_dict raised instead of returning a: one of its
\* extractors let an exception out.
BuildAnswerDictRaises(a) ==
    a.upvotes.kind = "raise" \/ a.views.kind = "raise"

MIN_ANSWER_CHARS == 50

\* Heuristic 1: a data-testid holding "answer" and a non-empty text.
Heuristic1(el) ==
    /\ el.testid # None
    /\ Contains(Lower(el.testid), s_answer)
    /\ GetText(el.children, <<" ">>) # <<>>

\* Heuristic 2: a <div> whose class list holds "answer" and whose text is
\* longer than 50 characters.
Heuristic2(el) ==
    /\ el.tag = "div"
    /\ Contains(Lower(Join(el.class, <<" ">>)), s_answer)
    /\ Len(GetText(el.children, <<>>)) > MIN_ANSWER_CHARS

\* The fallback loop run whatever heuristic 1 found.
RunHeuristic2Always(answers) == TRUE

\* Whether the fallback loop runs: "if not answers".
RunHeuristic2(answers) == answers = <<>>

\* The de-duplication loop: deduped so far, the texts seen so far.
RECURSIVE Dedupe(_, _, _)
Dedupe(answers, deduped, seen_texts) ==
    IF answers = <<>> THEN deduped
    ELSE IF Head(answers).text \in seen_texts
         THEN Dedupe(Tail(answers), deduped, seen_texts)
    ELSE Dedupe(Tail(answers), Append(deduped, Head(answers)),
                seen_texts \cup {Head(answers).text})

\* The containers heuristic 1 selected, then those of heuristic 2 if it runs.
ContainersAfter(first, elems) ==
    first \o (IF RunHeuristic2(first) THEN SelectSeq(elems, Heuristic2)
              ELSE <<>>)

\* The containers both loops of _extract_answer_blocks select.
AnswerContainers(sp) == ContainersAfter(SelectSeq(sp.elems, Heuristic1), sp.elems)

\* The dict appended for each selected container.
AnswerDicts(cs) ==
    [i \in 1..Len(cs) |->
       BuildAnswerDict(cs[i].children, GetText(cs[i].children, <<" ">>))]

\* What the function gives for the dicts its loops appended.
BlocksOfDicts(answers) ==
    IF \E i \in 1..Len(answers) : BuildAnswerDictRaises(answers[i])
    THEN [kind |-> "raise", exc |-> "OverflowError"]
    ELSE [kind |-> "ok", v |-> Dedupe(answers, <<>>, {})]

\* _extract_answer_blocks: [kind |-> "ok", v |-> the blocks], or
\* [kind |-> "raise"] when building a block's dict raises.
ExtractAnswerBlocks(sp) == BlocksOfDicts(AnswerDicts(AnswerContainers(sp)))

\* The text nodes of the body's elements, in document order.
RECURSIVE BodyStrings(_)
BodyStrings(els) ==
    IF els = <<>> THEN <<>>
    ELSE Strings(Head(els).children) \o BodyStrings(Tail(els))

\* The strings of <head> and of the <h1>, in document order.
HeadStrings(sp) ==
    (IF sp.title = None THEN <<>> ELSE <<sp.title>>)
    \o (IF sp.h1 = NoNodes THEN <<>> ELSE sp.h1)

\* soup.get_text(" ", strip=True): the strings of the whole document.
PageText(sp) ==
    Join(StrippedStrings(HeadStrings(sp) \o BodyStrings(sp.elems)), <<" ">>)

\* A cut one character late.
PAGE_TEXT_LIMIT_LATE == 5000 + 1

\* The [:5000] of the fallback record.
PAGE_TEXT_LIMIT == 5000

\* enumerate(answers) without its start.
ENUMERATE_FROM_ZERO == 1 - 1

\* enumerate(answers, start=1)
ENUMERATE_START == 1

\* s[:n]
Take(s, n) == SubSeq(s, 1, Min(n, Len(s)))

\* The record the loop builds for answer number index (from ENUMERATE_START).
AnswerRecord(answer, index, count, qid, u, title, now) ==
    [index |-> index,
     qid |-> qid,
     id |-> BuildEncodedId(qid, index),
     url |-> u,
     title |-> title,
     creationTime |-> now,
     answerCount |-> count,
     answers |-> Strip(answer.text),
     numUpvotes |-> answer.upvotes,
     numViews |-> answer.views,
     profileUrl |-> answer.profile_url,
     names |-> <<[givenName |-> IF answer.author_name = None THEN <<>>
                                ELSE answer.author_name,
                  familyName |-> <<>>]>>]

\* The record built from the whole page when no block was found.
FallbackRecord(sp, qid, u, title, now) ==
    [index |-> 1,
     qid |-> qid,
     id |-> BuildEncodedId(qid, 1),
     url |-> u,
     title |-> title,
     creationTime |-> now,
     answerCount |-> 0,
     answers |-> Take(PageText(sp), PAGE_TEXT_LIMIT),
     numUpvotes |-> [kind |-> "none"],
     numViews |-> [kind |-> "none"],
     profileUrl |-> None,
     names |-> <<[givenName |-> <<>>, familyName |-> <<>>]>>]

\* "if not recs"
NoRecords(recs) == recs = <<>>

\* The records of the loop over the answer blocks.
AnswerRecords(answers, qid, u, title, now) ==
    [i \in 1..Len(answers) |->
       AnswerRecord(answers[i], i - 1 + ENUMERATE_START, Len(answers),
                    qid, u, title, now)]

\* The records returned: the fallback record when the loop made none.
RecordsOrFallback(recs, sp, qid, u, title, now) ==
    IF NoRecords(recs) THEN <<FallbackRecord(sp, qid, u, title, now)>>
    ELSE recs

RecordsOfBlocks(found, sp, qid, u, title, now) ==
    IF found.kind = "raise" THEN found
    ELSE [kind |-> "ok",
          v |-> RecordsOrFallback(AnswerRecords(found.v, qid, u, title, now),
                                  sp, qid, u, title, now)]

\* _parse_question_page: [kind |-> "ok", v |-> the records], or
\* [kind |-> "raise"] when _extract_answer_blocks raises.
ParseQuestionPage(sp, u, now) ==
    RecordsOfBlocks(ExtractAnswerBlocks(sp), sp, ExtractQid(sp, u), u,
                    ExtractTitle(sp), now)

-----------------------------------------------------------------------------
(* The exporter: export_data                                                *)

SupportedFormats == {"json", "csv", "excel", "html"}

\* An ext dictionary that takes the format string for the extension.
FormatExtAsNamed(fmt) == fmt

\* The ext dictionary of export_data.
FormatExt(fmt) ==
    CASE fmt = "json" -> "json"
      [] fmt = "csv" -> "csv"
      [] fmt = "excel" -> "xlsx"
      [] fmt = "html" -> "html"

\* os.path.join(output_dir, f"{base_filename}_{ts}.{ext}")
ExportPath(output_dir, base_filename, ts, ext) ==
    [dir |-> output_dir, base |-> base_filename, ts |-> ts, ext |-> ext]

\* Whether export_data rejects the format before anything else.
FormatRejected(fmt) == fmt \notin SupportedFormats

(***************************************************************************)
(* export_data(records, output_dir, base_filename, fmt), as what it does   *)
(* to the directories and files and what it returns or raises.  io is what *)
(* the file system does with the call: "ok", or the step that fails.       *)
(***************************************************************************)
ExportData(ds, fs, output_dir, base_filename, fmt, ts, io) ==
    LET path == ExportPath(output_dir, base_filename,
                           ts, FormatExt(fmt))
    IN  IF FormatRejected(fmt)
        THEN [dirs |-> ds, files |-> fs,
              out |-> [kind |-> "raise", exc |-> "ValueError"]]
        ELSE IF io = "mkdir_fails"
        THEN [dirs |-> ds, files |-> fs,
              out |-> [kind |-> "raise", exc |-> "OSError"]]
        ELSE IF io = "open_fails"
        THEN [dirs |-> ds \cup {output_dir}, files |-> fs,
              out |-> [kind |-> "raise", exc |-> "OSError"]]
        ELSE IF io = "write_fails"
        THEN [dirs |-> ds \cup {output_dir}, files |-> fs \cup {path},
              out |-> [kind |-> "raise", exc |-> "OSError"]]
        ELSE [dirs |-> ds \cup {output_dir}, files |-> fs \cup {path},
              out |-> [kind |-> "ok", path |-> path]]

-----------------------------------------------------------------------------
(* The orchestrator: scrape_url, _scrape_search, _scrape_question, _get     *)

\* A response of self.session.get: a body, or a requests.RequestException.
Failed == [ok |-> FALSE]

Response(body) == [ok |-> TRUE, body |-> body]

\* _get: the body, or None after the exception is caught and logged.
GetIsNone(resp) == ~resp.ok

NoLimit == [given |-> FALSE]

Limit(k) == [given |-> TRUE, k |-> k]

\* question_urls[: max(limit_per_search, 0)] when a limit is given.
ApplyLimit(urls, lim) ==
    IF lim.given THEN Take(urls, Max(lim.k, 0)) ELSE urls

-----------------------------------------------------------------------------
(* Inputs                                                                   *)

MaxTokLen == 4
MaxTitleLen == 2
MaxElems == 2
MaxLinks == 2
MaxListing == 3
MaxLimit == 2
MaxExports == 2
MaxClock == 2

Rep(c, n) == [i \in 1..n |-> c]

TokenChars == {"1", "2", ".", ",", "k", "m", "e", "-", " "}

t_452 == <<"4", "5", "2">>
t_1_2k == <<"1", ".", "2", "k">>
t_3m == <<"3", "m">>
t_abc == <<"a", "b", "c">>
t_1e999 == <<"1", "e", "9", "9", "9">>
t_Infinity == <<"I", "n", "f", "i", "n", "i", "t", "y">>

NamedTokens == {t_452, t_1_2k, t_3m, t_abc, s_inf, s_nan, t_1e999, t_Infinity}

Tokens == SeqsUpTo(TokenChars, MaxTokLen) \cup NamedTokens

TitleStrings == SeqsUpTo({" ", "a"}, MaxTitleLen)

TitleSoups ==
    [og : {None} \cup TitleStrings,
     title : {None} \cup TitleStrings,
     h1 : {NoNodes} \cup SeqsUpTo(TitleStrings, 1)
            \cup {<<a, b>> : a \in {<<" ">>, <<"a">>}, b \in {<<>>, <<"a", " ">>}},
     metaQid : {None}, dataQid : {None}, elems : {<<>>}]

t_12up == <<"1", "2", " ", "u", "p", "v", "o", "t", "e", "s">>
t_infup == <<"i", "n", "f", " ", "U", "p", "v", "o", "t", "e", "s">>
t_views == <<"1", ".", "2", "k", " ", "v", "i", "e", "w", "s">>
t_Al == <<"A", "l">>
t_Answer == <<"A", "n", "s", "w", "e", "r">>
t_card == <<"c", "a", "r", "d">>
t_q == <<"q">>
t_7 == <<"7">>
t_T == <<"M", "y", " ", "t", "i", "t", "l", "e">>
h_What == <<"/", "W", "h", "a", "t", "-", "a">>
h_How == <<"/", "H", "o", "w", "-", "a">>
h_Why == <<"/", "W", "h", "y", "-", "a">>
h_Is == <<"/", "I", "s", "-", "a">>
h_Can == <<"/", "C", "a", "n", "-", "a">>
h_q == <<"/", "q", "u", "e", "s", "t", "i", "o", "n", "/", "1">>
h_prof == <<"/", "p", "r", "o", "f", "i", "l", "e", "/", "a">>
h_ans == <<"/", "a", "n", "s", "w", "e", "r", "/", "1">>
h_topic == <<"/", "t", "o", "p", "i", "c">>
h_WhatQ == <<"/", "W", "h", "a", "t", "-", "b", "?", "q", "=", "1">>
p_other == <<"h", "t", "t", "p", "s", ":", "/", "/", "o", "t", "h", "e", "r", ".", "c", "o", "m">>
p_net == <<"/", "/", "o", "t", "h", "e", "r", ".", "c", "o", "m">>
p_ftp == <<"f", "t", "p", ":", "/", "/", "o", "t", "h", "e", "r", ".", "c", "o", "m">>
x_ref == <<"?", "r", "e", "f", "=", "q", "u", "o", "r", "a", ".", "c", "o", "m">>
e_profile_alice == <<"/", "p", "r", "o", "f", "i", "l", "e", "/", "a", "l", "i", "c", "e">>
e_What_is_AI == <<"/", "W", "h", "a", "t", "-", "i", "s", "-", "A", "I">>
e_answer_123 == <<"/", "a", "n", "s", "w", "e", "r", "/", "1", "2", "3">>
e_other_x == p_other \o <<"/", "x">>
e_question == <<"/", "q", "u", "e", "s", "t", "i", "o", "n", "/", "4", "5", "6", "-", "f", "o", "o">>

Long26 == Rep("x", 26)
Long24 == Rep("x", 24)
Huge == Rep("y", PAGE_TEXT_LIMIT + 1)

TextNode(s) == [a |-> FALSE, href |-> None, s |-> s]

Link(href, s) == [a |-> TRUE, href |-> href, s |-> s]

ch_empty == <<>>
ch_blank == <<TextNode(<<" ", "\n">>)>>
ch_up == <<TextNode(t_12up)>>
ch_long == <<TextNode(Long26), TextNode(Long26)>>
ch_long2 == <<TextNode(Long26), TextNode(<<" ">>), TextNode(<<" ">> \o Long26 \o <<"\n">>)>>
ch_prof == <<Link(h_prof, t_Al), TextNode(Long26), TextNode(Long26), TextNode(t_views)>>
ch_inf == <<TextNode(Long26), TextNode(Long26), TextNode(t_infup)>>
ch_50 == <<TextNode(Long26), TextNode(Long24)>>
ch_long_by == <<Link(h_prof, Long26), TextNode(Long26)>>
ch_huge == <<TextNode(Huge)>>

k_testid == [testid |-> t_Answer \o <<"-", "1">>, tag |-> "span", class |-> <<s_answer>>]
k_class == [testid |-> None, tag |-> "div", class |-> <<t_card, t_Answer>>]
k_plain == [testid |-> t_q, tag |-> "div", class |-> <<t_card>>]
k_span == [testid |-> None, tag |-> "span", class |-> <<t_Answer>>]

Element(k, ch) ==
    [testid |-> k.testid, tag |-> k.tag, class |-> k.class, children |-> ch]

Elements ==
    {Element(k_testid, ch) : ch \in {ch_empty, ch_blank, ch_up, ch_long, ch_long2,
                                     ch_prof, ch_inf, ch_long_by}}
      \cup {Element(k_class, ch) : ch \in {ch_up, ch_long, ch_long2, ch_50,
                                          ch_inf, ch_long_by}}
      \cup {Element(k_plain, ch) : ch \in {ch_up, ch_long, ch_huge}}
      \cup {Element(k_span, ch_long)}

hd_titled == [og |-> None, title |-> t_T, h1 |-> NoNodes, metaQid |-> None, dataQid |-> None]
hd_og == [og |-> <<" ">>, title |-> t_T, h1 |-> <<t_T>>, metaQid |-> t_7, dataQid |-> None]
hd_bare == [og |-> None, title |-> None, h1 |-> NoNodes, metaQid |-> t_q, dataQid |-> t_7]

Page(hd, els) ==
    [og |-> hd.og, title |-> hd.title, h1 |-> hd.h1, metaQid |-> hd.metaQid,
     dataQid |-> hd.dataQid, elems |-> els]

ContentPages ==
    {Page(hd, els) : hd \in {hd_titled, hd_og, hd_bare},
                     els \in SeqsUpTo(Elements, MaxElems)}

u_what == DEFAULT_BASE_URL \o h_What
u_search == DEFAULT_BASE_URL \o <<"/", "s", "e", "a", "r", "c", "h", "?", "q", "=", "a", "i">>
u_topicq == DEFAULT_BASE_URL \o h_topic \o <<"?", "q", "=", "1">>
u_pathq == DEFAULT_BASE_URL \o <<"/", "W", "h", "a", "t", "-", "q", "=", "1">>
u_hostsearch == <<"h", "t", "t", "p", "s", ":", "/", "/", "s", "e", "a", "r", "c", "h", ".", "q", "u", "o", "r", "a", ".", "c", "o", "m", "/", "x">>

Hrefs ==
    {a \o b \o c : a \in {<<>>, DEFAULT_BASE_URL, p_other, p_net, p_ftp},
                   b \in {h_What, h_How, h_Why, h_Is, h_Can, h_q, h_prof,
                          h_ans, h_topic},
                   c \in {<<>>, x_ref}}

\* The links of the search page the specification gives as its example.
ExampleLinks == <<e_profile_alice, e_What_is_AI, e_answer_123, e_other_x, e_question>>

LinkPages == SeqsUpTo(Hrefs, MaxLinks) \cup {ExampleLinks}

ScrapeUrls == {u_search, u_topicq, u_what, u_pathq, u_hostsearch}

ScrapeHrefs == {h_What, u_what, h_WhatQ, h_prof}

ListingPages == SeqsUpTo(ScrapeHrefs, MaxListing)

pg_two == Page(hd_titled, <<Element(k_testid, ch_up), Element(k_testid, ch_prof)>>)
pg_none == Page(hd_bare, <<Element(k_plain, ch_up)>>)
pg_inf == Page(hd_titled, <<Element(k_testid, ch_inf)>>)

ScrapePages == {pg_two, pg_none, pg_inf}

Limits == {NoLimit} \cup {Limit(k) : k \in (0 - 1)..MaxLimit}

Formats == {"json", "csv", "excel", "html", "xlsx", "pdf"}

OutputDirs == {"data", "out"}

IoOutcomes == {"ok", "mkdir_fails", "open_fails", "write_fails"}

-----------------------------------------------------------------------------
(* States                                                                   *)

NumIdle == token = <<>> /\ numResult = Pending

PageIdle ==
    /\ soup = Page(hd_bare, <<>>) /\ titleResult = Pending
    /\ blocks = Pending /\ parseResult = Pending

LinkIdle == html_links = <<>> /\ collected = Pending

ScrapeIdle ==
    /\ url = <<>> /\ limit_per_search = NoLimit /\ route = Pending
    /\ q_url = <<>> /\ question_urls = <<>> /\ q_index = 0
    /\ records = <<>> /\ result = Pending /\ fetchLog = <<>>

ExportIdle ==
    /\ dirs = {} /\ files = {} /\ exports = 0
    /\ exportCall = Pending /\ exportResult = Pending

-----------------------------------------------------------------------------
(* _parse_compact_number on every token                                     *)

InitNum ==
    /\ pc = "_parse_compact_number" /\ clock = 0
    /\ token \in Tokens /\ numResult = Pending
    /\ PageIdle /\ LinkIdle /\ ScrapeIdle /\ ExportIdle

CallParseCompactNumber ==
    /\ pc = "_parse_compact_number"
    /\ numResult' = ParseCompactNumber(token)
    /\ pc' = IF numResult'.kind = "raise" THEN "raised" ELSE "done"
    /\ UNCHANGED <<clock, token, pageVars, linkVars, scrapeVars, exportVars>>

SpecNum == InitNum /\ [][CallParseCompactNumber]_vars

-----------------------------------------------------------------------------
(* _extract_title on every combination of title sources                     *)

InitTitle ==
    /\ pc = "_extract_title" /\ clock = 0
    /\ soup \in TitleSoups
    /\ titleResult = Pending /\ blocks = Pending /\ parseResult = Pending
    /\ NumIdle /\ LinkIdle /\ ScrapeIdle /\ ExportIdle

CallExtractTitle ==
    /\ pc = "_extract_title"
    /\ titleResult' = ExtractTitle(soup)
    /\ pc' = "done"
    /\ UNCHANGED <<clock, numVars, soup, blocks, parseResult, linkVars,
                   scrapeVars, exportVars>>

SpecTitle == InitTitle /\ [][CallExtractTitle]_vars

-----------------------------------------------------------------------------
(* _parse_question_page on every content page                               *)

InitPage ==
    /\ pc = "_parse_question_page" /\ clock = 0
    /\ soup \in ContentPages
    /\ titleResult = Pending /\ blocks = Pending /\ parseResult = Pending
    /\ NumIdle /\ LinkIdle /\ ExportIdle
    /\ url \in {u_what} /\ limit_per_search = NoLimit /\ route = Pending
    /\ q_url = <<>> /\ question_urls = <<>> /\ q_index = 0
    /\ records = <<>> /\ result = Pending /\ fetchLog = <<>>

CallParseQuestionPage ==
    /\ pc = "_parse_question_page"
    /\ titleResult' = ExtractTitle(soup)
    /\ blocks' = ExtractAnswerBlocks(soup)
    /\ parseResult' = ParseQuestionPage(soup, url, clock)
    /\ pc' = IF parseResult'.kind = "raise" THEN "raised" ELSE "done"
    /\ UNCHANGED <<clock, numVars, soup, linkVars, scrapeVars, exportVars>>

SpecPage == InitPage /\ [][CallParseQuestionPage]_vars

-----------------------------------------------------------------------------
(* _parse_search_results_page on every search page                          *)

InitLinks ==
    /\ pc = "_parse_search_results_page" /\ clock = 0
    /\ html_links \in LinkPages /\ collected = Pending
    /\ NumIdle /\ PageIdle /\ ScrapeIdle /\ ExportIdle

CallParseSearchResultsPage ==
    /\ pc = "_parse_search_results_page"
    /\ collected' = ParseSearchResultsPage(html_links)
    /\ pc' = "done"
    /\ UNCHANGED <<clock, numVars, pageVars, html_links, scrapeVars, exportVars>>

SpecLinks == InitLinks /\ [][CallParseSearchResultsPage]_vars

-----------------------------------------------------------------------------
(* export_data, called again and again while the clock runs                 *)

InitExport ==
    /\ pc = "export_data" /\ clock = 0
    /\ dirs \in {{}, {"data"}} /\ files = {} /\ exports = 0
    /\ exportCall = Pending /\ exportResult = Pending
    /\ NumIdle /\ PageIdle /\ LinkIdle /\ ScrapeIdle

CallExportData ==
    /\ pc = "export_data"
    /\ exports < MaxExports
    /\ \E fmt \in Formats, output_dir \in OutputDirs, io \in IoOutcomes :
         LET r == ExportData(dirs, files, output_dir, "quora_results", fmt,
                             clock, io)
         IN  /\ exportCall' = [fmt |-> fmt, output_dir |-> output_dir,
                               base_filename |-> "quora_results",
                               ts |-> clock, io |-> io,
                               dirsBefore |-> dirs, filesBefore |-> files]
             /\ dirs' = r.dirs
             /\ files' = r.files
             /\ exportResult' = r.out
    /\ exports' = exports + 1
    /\ UNCHANGED <<pc, clock, numVars, pageVars, linkVars, scrapeVars>>

Tick ==
    /\ pc = "export_data"
    /\ clock < MaxClock
    /\ clock' = clock + 1
    /\ UNCHANGED <<pc, numVars, pageVars, linkVars, scrapeVars, exportVars>>

NextExport == CallExportData \/ Tick

SpecExport == InitExport /\ [][NextExport]_vars

-----------------------------------------------------------------------------
(* scrape_url                                                               *)

Init ==
    /\ pc = "scrape_url" /\ clock = 0
    /\ url \in ScrapeUrls /\ limit_per_search \in Limits
    /\ route = Pending /\ q_url = <<>> /\ question_urls = <<>> /\ q_index = 0
    /\ records = <<>> /\ result = Pending /\ fetchLog = <<>>
    /\ collected = Pending /\ html_links = <<>>
    /\ NumIdle /\ PageIdle /\ ExportIdle

\* scrape_url: the routing.
ScrapeUrl ==
    /\ pc = "scrape_url"
    /\ IF IsSearchUrl(url)
       THEN /\ route' = "search"
            /\ pc' = "_scrape_search"
            /\ q_url' = q_url
       ELSE /\ route' = "question"
            /\ pc' = "_scrape_question"
            /\ q_url' = url
    /\ UNCHANGED <<clock, numVars, pageVars, linkVars, url, limit_per_search,
                   question_urls, q_index, records, result, fetchLog,
                   exportVars>>

\* _scrape_search up to its for loop: the listing fetch, the links, the limit.
ScrapeSearch ==
    /\ pc = "_scrape_search"
    /\ \E resp \in {Failed} \cup {Response(h) : h \in ListingPages} :
         /\ fetchLog' = Append(fetchLog, [url |-> url, by |-> "_scrape_search",
                                          resp |-> resp])
         /\ IF GetIsNone(resp)
            THEN /\ result' = <<>>
                 /\ pc' = "done"
                 /\ UNCHANGED <<html_links, collected, question_urls, q_index>>
            ELSE /\ html_links' = resp.body
                 /\ collected' = ParseSearchResultsPage(resp.body)
                 /\ question_urls' = ApplyLimit(collected', limit_per_search)
                 /\ q_index' = 1
                 /\ pc' = "for"
                 /\ result' = result
    /\ UNCHANGED <<clock, numVars, pageVars, url, limit_per_search, route,
                   q_url, records, exportVars>>

\* The for loop of _scrape_search: the next link, or the return.
ForQuestionUrl ==
    /\ pc = "for"
    /\ IF q_index <= Len(question_urls)
       THEN /\ q_url' = question_urls[q_index]
            /\ pc' = "_scrape_question"
            /\ result' = result
       ELSE /\ result' = records
            /\ pc' = "done"
            /\ q_url' = q_url
    /\ UNCHANGED <<clock, numVars, pageVars, linkVars, url, limit_per_search,
                   route, question_urls, q_index, records, fetchLog,
                   exportVars>>

\* What _scrape_question returns for a response: no record for a failed
\* fetch, else what _parse_question_page makes of the page.
ScrapeQuestionResult(resp, normalized_url, now) ==
    IF GetIsNone(resp) THEN [kind |-> "ok", v |-> <<>>]
    ELSE ParseQuestionPage(resp.body, normalized_url, now)

\* What the caller of _scrape_question does with its outcome r: the
\* exception goes on up, the loop extends its records, scrape_url returns.
QuestionReturns(r) ==
    IF r.kind = "raise"
    THEN /\ pc' = "raised"
         /\ UNCHANGED <<records, result, q_index>>
    ELSE IF route = "search"
    THEN /\ records' = records \o r.v
         /\ q_index' = q_index + 1
         /\ pc' = "for"
         /\ result' = result
    ELSE /\ result' = r.v
         /\ pc' = "done"
         /\ UNCHANGED <<records, q_index>>

\* The fetch of normalized_url and what follows it.
QuestionFetched(resp, normalized_url) ==
    /\ fetchLog' = Append(fetchLog, [url |-> normalized_url,
                                     by |-> "_scrape_question", resp |-> resp])
    /\ QuestionReturns(ScrapeQuestionResult(resp, normalized_url, clock))

\* _scrape_question, called by scrape_url or by the loop of _scrape_search.
ScrapeQuestion ==
    /\ pc = "_scrape_question"
    /\ \E resp \in {Failed} \cup {Response(p) : p \in ScrapePages} :
         QuestionFetched(resp, NormalizeUrl(q_url))
    /\ UNCHANGED <<clock, numVars, pageVars, linkVars, url, limit_per_search,
                   route, q_url, question_urls, exportVars>>

Next == ScrapeUrl \/ ScrapeSearch \/ ForQuestionUrl \/ ScrapeQuestion

Spec == Init /\ [][Next]_vars

-----------------------------------------------------------------------------
(* Properties                                                               *)

\* The sequences of a sequence of sequences, one after another.
RECURSIVE Flatten(_)
Flatten(seqs) ==
    IF seqs = <<>> THEN <<>> ELSE Head(seqs) \o Flatten(Tail(seqs))

\* The fetches made by _scrape_question.
IsContentFetch(e) == e.by = "_scrape_question"

\* scrape_url is over: it returned or an exception left it.
Ended == pc \in {"done", "raised"}

\* A search scrape whose search page was fetched, and its links collected.
LinksCollected ==
    route = "search" /\ fetchLog # <<>> /\ ~GetIsNone(fetchLog[1].resp)

(***************************************************************************)
(* C1.  On a page where _extract_answer_blocks returns N >= 1 blocks,      *)
(* _parse_question_page returns exactly N records; every record has        *)
(* answerCount = N, and record i has index i and the text of block i.      *)
(***************************************************************************)
C1_OneRecordPerBlock ==
    (pc = "done" /\ blocks.kind = "ok" /\ Len(blocks.v) >= 1) =>
        /\ parseResult.kind = "ok"
        /\ Len(parseResult.v) = Len(blocks.v)
        /\ \A i \in 1..Len(blocks.v) :
             /\ parseResult.v[i].answerCount = Len(blocks.v)
             /\ parseResult.v[i].index = i
             /\ parseResult.v[i].answers = blocks.v[i].text

\* A page parsed into two records from two blocks of different texts.
C1_TwoBlocksParsed ==
    /\ pc = "done" /\ blocks.kind = "ok" /\ Len(blocks.v) = 2
    /\ blocks.v[1].text # blocks.v[2].text
    /\ Len(parseResult.v) = 2

(***************************************************************************)
(* C2.  _parse_question_page never returns an empty list: when             *)
(* _extract_answer_blocks returns no block it returns one record, with     *)
(* index 1, answerCount 0, the text of the page cut to at most 5000        *)
(* characters as answers, no numUpvotes, numViews or profileUrl, and one   *)
(* pair of empty names.                                                    *)
(***************************************************************************)
C2_FallbackRecordWhenNoBlock ==
    pc = "done" =>
        /\ parseResult.kind = "ok"
        /\ parseResult.v # <<>>
        /\ (blocks.kind = "ok" /\ blocks.v = <<>>) =>
             /\ Len(parseResult.v) = 1
             /\ parseResult.v[1].index = 1
             /\ parseResult.v[1].answerCount = 0
             /\ Len(parseResult.v[1].answers) <= 5000
             /\ parseResult.v[1].answers
                  = SubSeq(PageText(soup), 1, Min(5000, Len(PageText(soup))))
             /\ parseResult.v[1].numUpvotes = [kind |-> "none"]
             /\ parseResult.v[1].numViews = [kind |-> "none"]
             /\ parseResult.v[1].profileUrl = None
             /\ parseResult.v[1].names
                  = <<[givenName |-> <<>>, familyName |-> <<>>]>>

\* A page without a block whose text is longer than 5000 characters, parsed.
C2_LongPageCut ==
    /\ pc = "done" /\ blocks.kind = "ok" /\ blocks.v = <<>>
    /\ Len(PageText(soup)) > 5000
    /\ Len(parseResult.v) = 1
    /\ Len(parseResult.v[1].answers) = 5000

(***************************************************************************)
(* C9.  No two blocks _extract_answer_blocks returns have the same text:   *)
(* of the candidates with one text the first in document order is kept,    *)
(* the kept ones stay in document order, and the candidates are those of   *)
(* heuristic 2 only when heuristic 1 finds none, never those of both.      *)
(***************************************************************************)
C9_BlocksDistinctInOrder ==
    (pc = "done" /\ blocks.kind = "ok") =>
        LET h1 == SelectSeq(soup.elems, Heuristic1)
            cand == IF h1 # <<>> THEN h1 ELSE SelectSeq(soup.elems, Heuristic2)
            text(i) == GetText(cand[i].children, <<" ">>)
            kept == {i \in 1..Len(cand) : \A j \in 1..(i - 1) : text(j) # text(i)}
            Kth(k) == CHOOSE i \in kept : Cardinality({j \in kept : j <= i}) = k
        IN  /\ \A i, j \in 1..Len(blocks.v) :
                 i # j => blocks.v[i].text # blocks.v[j].text
            /\ Len(blocks.v) = Cardinality(kept)
            /\ \A k \in 1..Len(blocks.v) :
                 blocks.v[k] = BuildAnswerDict(cand[Kth(k)].children, text(Kth(k)))

\* Heuristic 1 finds nothing, heuristic 2 finds two containers of one text,
\* of which the first, the one without an author, is the block returned.
C9_DuplicateOfFallbackDropped ==
    /\ pc = "done" /\ blocks.kind = "ok"
    /\ Len(soup.elems) = 2
    /\ SelectSeq(soup.elems, Heuristic1) = <<>>
    /\ Len(SelectSeq(soup.elems, Heuristic2)) = 2
    /\ Len(blocks.v) = 1
    /\ blocks.v[1].profile_url = None
    /\ ExtractAuthor(soup.elems[2].children).profile_url # None

(***************************************************************************)
(* C7.  _parse_compact_number never raises: for every token it returns an  *)
(* integer or None; "1.2k" gives 1200, "3m" 3000000, "452" 452, and "" and *)
(* "abc" give None.                                                        *)
(***************************************************************************)
C7_CompactNumberNeverRaises ==
    /\ pc # "raised"
    /\ pc = "done" =>
         /\ numResult.kind \in {"int", "bigint", "none"}
         /\ token = t_1_2k => numResult = [kind |-> "int", v |-> 1200]
         /\ token = t_3m => numResult = [kind |-> "int", v |-> 3000000]
         /\ token = t_452 => numResult = [kind |-> "int", v |-> 452]
         /\ token \in {<<>>, t_abc} => numResult = [kind |-> "none"]

\* The call on "inf" ended by an exception.
C7_InfRaises ==
    pc = "raised" /\ token = s_inf /\ numResult.kind = "raise"

(***************************************************************************)
(* C6.  _extract_title never returns the empty string: it returns the      *)
(* first of the og:title content, the <title> text and the first <h1>      *)
(* text that is not empty once stripped, else "Quora Question"; a source   *)
(* that is present but empty or blank is passed over.                      *)
(***************************************************************************)
C6_TitleNeverEmpty ==
    pc = "done" =>
        LET og == IF soup.og = None THEN <<>> ELSE Strip(soup.og)
            title == IF soup.title = None THEN <<>> ELSE Strip(soup.title)
            h1 == IF soup.h1 = NoNodes THEN <<>>
                  ELSE Join(StrippedStrings(soup.h1), <<>>)
        IN  /\ titleResult # <<>>
            /\ titleResult = IF og # <<>> THEN og
                             ELSE IF title # <<>> THEN title
                             ELSE IF h1 # <<>> THEN h1
                             ELSE QuoraQuestion

\* A blank og:title content before a <title> of "a": the title returned is "".
C6_BlankOgTitleWins ==
    /\ pc = "done" /\ soup.og = <<" ">> /\ soup.title = <<"a">>
    /\ titleResult = <<>>

(***************************************************************************)
(* C5.  _parse_search_results_page returns, in document order and without  *)
(* duplicates, the normalized targets that are accepted and not rejected:  *)
(* rejected is an absolute URL whose host does not hold "quora.com", or a  *)
(* target holding "/profile/" or "answer/"; accepted is a target holding   *)
(* "/What-", "/How-", "/Why-", "/Is-", "/Can-" or "/question/".  So no URL *)
(* returned is an absolute URL with a host outside quora.com.              *)
(***************************************************************************)
C5_CollectorKeepsSiteQuestions ==
    pc = "done" =>
        LET Foreign(u) ==
                /\ UrlParse(u).scheme # <<>>
                /\ ~Contains(UrlParse(u).netloc, s_quora_com)
            Rejected(h) ==
                Foreign(h) \/ Contains(h, s_profile) \/ Contains(h, s_answer_slash)
            Accepted(h) ==
                \E m \in {s_What, s_How, s_Why, s_Is, s_Can, s_question} :
                    Contains(h, m)
            Target(i) == NormalizeUrl(html_links[i])
            Wanted(i) == Accepted(html_links[i]) /\ ~Rejected(html_links[i])
            kept == {i \in 1..Len(html_links) :
                       /\ Wanted(i)
                       /\ \A j \in 1..(i - 1) : Wanted(j) => Target(j) # Target(i)}
            Kth(k) == CHOOSE i \in kept : Cardinality({j \in kept : j <= i}) = k
        IN  /\ \A i \in 1..Len(collected) : ~Foreign(collected[i])
            /\ Len(collected) = Cardinality(kept)
            /\ \A k \in 1..Len(collected) : collected[k] = Target(Kth(k))

\* The only link of the page goes to other.com and names quora.com in its
\* query: it is the one URL returned.
C5_ForeignLinkCollected ==
    /\ pc = "done"
    /\ html_links = <<p_other \o h_What \o x_ref>>
    /\ collected = <<p_other \o h_What \o x_ref>>

(***************************************************************************)
(* C8, as stated.  export_data with a format outside json, csv, xlsx, html *)
(* raises and leaves directories and files as they were; with one of these *)
(* four it writes one file, <output_dir>/<base_filename>_<timestamp>.<ext> *)
(* with ext the format.  (The file system is taken to let it.)             *)
(***************************************************************************)
C8_FormatsNamedByExtension ==
    exports > 0 =>
        IF exportCall.fmt \in {"json", "csv", "xlsx", "html"}
        THEN exportCall.io = "ok" =>
               /\ exportResult.kind = "ok"
               /\ exportResult.path
                    = [dir |-> exportCall.output_dir,
                       base |-> exportCall.base_filename,
                       ts |-> exportCall.ts, ext |-> exportCall.fmt]
               /\ files = exportCall.filesBefore \cup {exportResult.path}
        ELSE /\ exportResult.kind = "raise"
             /\ dirs = exportCall.dirsBefore
             /\ files = exportCall.filesBefore

(***************************************************************************)
(* C8, amended.  The formats are json, csv, excel and html.  export_data   *)
(* with any other format, "xlsx" among them, raises ValueError and leaves  *)
(* directories and files as they were; with one of the four, and the file  *)
(* system letting it, it creates output_dir if need be and writes one      *)
(* file, <output_dir>/<base_filename>_<timestamp>.<ext>, with ext json,    *)
(* csv, xlsx, html in that order, and returns its path.                    *)
(***************************************************************************)
C8_FormatsOfTheCode ==
    exports > 0 =>
        IF exportCall.fmt \in {"json", "csv", "excel", "html"}
        THEN exportCall.io = "ok" =>
               /\ exportResult.kind = "ok"
               /\ exportResult.path
                    = [dir |-> exportCall.output_dir,
                       base |-> exportCall.base_filename,
                       ts |-> exportCall.ts,
                       ext |-> IF exportCall.fmt = "excel" THEN "xlsx"
                               ELSE exportCall.fmt]
               /\ exportResult.path.ext \in {"json", "csv", "xlsx", "html"}
               /\ files = exportCall.filesBefore \cup {exportResult.path}
               /\ dirs = exportCall.dirsBefore \cup {exportCall.output_dir}
        ELSE /\ exportResult = [kind |-> "raise", exc |-> "ValueError"]
             /\ dirs = exportCall.dirsBefore
             /\ files = exportCall.filesBefore

\* An "excel" export has written its .xlsx file; then an "xlsx" export, into
\* a directory that does not exist, raised and changed nothing.
C8_XlsxRejectedAfterExcelExport ==
    /\ exports > 0
    /\ exportCall.fmt = "xlsx" /\ exportResult.kind = "raise"
    /\ exportCall.output_dir \notin dirs
    /\ \E f \in files : f.ext = "xlsx"
    /\ files = exportCall.filesBefore

(***************************************************************************)
(* C3.  scrape_url does not let a fetch failure out: when the fetch of the *)
(* search page, or of the one question page, fails it returns the empty    *)
(* list; when fetches of question pages fail during a search scrape it     *)
(* still returns, and what it returns is the records of the pages fetched, *)
(* one page after another in the order of the links.                       *)
(***************************************************************************)
C3_ReturnsDespiteFailedFetches ==
    LET failed == {i \in 1..Len(fetchLog) : GetIsNone(fetchLog[i].resp)}
        content == SelectSeq(fetchLog, IsContentFetch)
        RecordsOf(e) ==
            IF GetIsNone(e.resp) THEN <<>>
            ELSE ParseQuestionPage(e.resp.body, e.url, clock).v
    IN  /\ (route = "search" /\ failed # {}) => pc # "raised"
        /\ (pc = "done" /\ 1 \in failed) => result = <<>>
        /\ pc = "done" =>
             result = Flatten([i \in 1..Len(content) |-> RecordsOf(content[i])])

\* A search scrape in which the fetch of one question page failed and a page
\* fetched after it made the parser raise: scrape_url returned nothing.
C3_RaisedAfterFailedFetch ==
    /\ pc = "raised" /\ route = "search" /\ Len(fetchLog) = 3
    /\ GetIsNone(fetchLog[2].resp) /\ ~GetIsNone(fetchLog[3].resp)

(***************************************************************************)
(* C4.  A search scrape that collected L links under a limit k runs        *)
(* _scrape_question on the first min(max(k, 0), L) of them, in order, and  *)
(* on no other; on all L without a limit, on none with a negative one.     *)
(***************************************************************************)
C4_FirstLinksScraped ==
    (Ended /\ LinksCollected) =>
        LET L == Len(collected)
            n == IF limit_per_search.given
                 THEN Min(Max(limit_per_search.k, 0), L) ELSE L
            content == SelectSeq(fetchLog, IsContentFetch)
        IN  /\ Len(content) = n
            /\ \A i \in 1..Len(content) : content[i].url = collected[i]
            /\ (limit_per_search.given /\ limit_per_search.k < 0) => content = <<>>

\* scrape_url is over with two links selected and one of them scraped.
C4_SecondLinkNeverScraped ==
    /\ pc = "raised" /\ route = "search"
    /\ Len(question_urls) = 2
    /\ Len(SelectSeq(fetchLog, IsContentFetch)) = 1

(***************************************************************************)
(* C10.  scrape_url ends after a bounded run of fetches.  The URL goes to  *)
(* _scrape_search exactly when its path holds "search" or its query holds  *)
(* "q="; a question scrape makes one fetch; a search scrape makes the      *)
(* fetch of the search page and then one fetch for each link selected, in  *)
(* the order of the links, each by _scrape_question whatever the link      *)
(* holds, so at most 1 + L fetches for L links collected.                  *)
(***************************************************************************)
C10_OneFetchPerSelectedLink ==
    /\ route # Pending =>
         (route = "search" <=> \/ Contains(UrlParse(url).path, s_search)
                               \/ Contains(UrlParse(url).query, s_q_eq))
    /\ (Ended /\ route = "question") =>
         Len(fetchLog) = 1 /\ IsContentFetch(fetchLog[1])
    /\ LinksCollected =>
         /\ Len(fetchLog) <= 1 + Len(collected)
         /\ fetchLog[1].by = "_scrape_search"
         /\ \A i \in 2..Len(fetchLog) :
              /\ IsContentFetch(fetchLog[i])
              /\ fetchLog[i].url = question_urls[i - 1]
    /\ (Ended /\ LinksCollected) =>
         Len(fetchLog) = 1 + Len(question_urls)

\* scrape_url is over after the search page and the first of two links, a
\* link with "q=" in its query, were fetched.
C10_FetchesCutShort ==
    /\ pc = "raised" /\ route = "search"
    /\ Len(question_urls) = 2 /\ Len(fetchLog) = 2
    /\ Contains(UrlParse(fetchLog[2].url).query, s_q_eq)

=============================================================================
